---- MODULE Spec2Model ----
(***************************************************************************)
(* A model of the SEO audit pipeline (src/audit.py) and of the dashboard   *)
(* start-up (src/seo_dashboard.py).                                        *)
(*                                                                         *)
(* Units: response times are held in milliseconds (0.5 s = 500), time      *)
(* stamps in whole days.  Column headers are held in the lower-cased,      *)
(* stripped form that clean_data gives them (audit.py:25).                 *)
(***************************************************************************)
EXTENDS Integers, Sequences, FiniteSets, TLC

(***************************************************************************)
(* Bounds of the model.                                                    *)
(***************************************************************************)
\* the longest crawl export (rows of the source file)
MaxRows == 3
\* how many days the clock may move on during the runs
MaxTicks == 1

(***************************************************************************)
(* Values.                                                                 *)
(***************************************************************************)
\* a missing numeric cell (pandas NaN / NaT); every real number is >= 0
NA == -1
\* a cell holding text that does not parse as a number or a date
BAD == -2
\* a missing text cell (pandas NaN in an object column)
NAs == "<NA>"

\* the thresholds of the rule catalogue
SlowThreshold == 500
TitleMin == 50
TitleMax == 60
MetaMin == 150
MetaMax == 160
ThinWords == 300
ReadabilityMin == 60
DeepDepth == 3
InlinksMin == 5
LargeBytes == 100000
YearDays == 365
ClientErrorLo == 400
ClientErrorHi == 499

\* the content types that contain 'text/html' (the match is case-sensitive)
ContainsTextHtml(s) == s \in {"text/html", "text/html; charset=UTF-8"}
\* the indexability statuses, and those that contain 'Non-Indexable'
ContainsNonIndexable(s) == s \in {"Non-Indexable", "Non-Indexable (noindex)"}

\* the columns of the source file that the pipeline reads
AllColumns ==
  {"address", "content type", "status code", "response time",
   "indexability", "indexability status", "canonical link element 1",
   "title 1", "title 1 length", "meta description 1",
   "meta description 1 length", "word count", "flesch reading ease score",
   "no. near duplicates", "closest similarity match", "crawl depth",
   "inlinks", "outlinks", "link score", "size (bytes)", "last modified",
   "http version"}

(***************************************************************************)
(* The rows the crawl exports are drawn from.                              *)
(***************************************************************************)
Base ==
  [address |-> "a", content_type |-> "text/html", status_code |-> 200,
   response_time |-> 300, indexability_status |-> "Indexable",
   canonical |-> "a", title_1 |-> "Home", title_1_length |-> 55,
   meta_length |-> 155, word_count |-> 500, flesch |-> 70,
   no_near_duplicates |-> 0, closest_similarity_match |-> NA, crawl_depth |-> 1, inlinks |-> 10,
   link_score |-> 50, size_bytes |-> 5000, last_modified |-> 300,
   http_version |-> "2"]

\* the three rows of the end-to-end scenario
RowA == Base
RowB ==
  [Base EXCEPT !.address = "b", !.canonical = "b", !.status_code = 404,
     !.response_time = 800, !.title_1 = "About", !.title_1_length = 45,
     !.no_near_duplicates = 2, !.closest_similarity_match = 80, !.inlinks = 2, !.link_score = 40,
     !.last_modified = 0]
RowC ==
  [Base EXCEPT !.address = "c", !.canonical = "c", !.response_time = 200,
     !.title_1 = "Contact", !.title_1_length = 65, !.no_near_duplicates = 1,
     !.closest_similarity_match = 95, !.inlinks = 1, !.link_score = 10,
     !.last_modified = 1]
\* an HTML page with every other cell missing, the address of RowA again
RowD ==
  [address |-> "a", content_type |-> "text/html", status_code |-> NA,
   response_time |-> NA, indexability_status |-> NAs, canonical |-> NAs,
   title_1 |-> NAs, title_1_length |-> NA, meta_length |-> NA,
   word_count |-> NA, flesch |-> NA, no_near_duplicates |-> NA, closest_similarity_match |-> NA,
   crawl_depth |-> NA, inlinks |-> NA, link_score |-> NA,
   size_bytes |-> NA, last_modified |-> NA, http_version |-> NAs]
\* every threshold met exactly, unparseable status and date, no content type
RowE ==
  [Base EXCEPT !.address = "b", !.content_type = NAs,
     !.status_code = BAD, !.response_time = 500, !.title_1 = "About",
     !.title_1_length = 50, !.meta_length = 150, !.word_count = 300,
     !.flesch = 60, !.crawl_depth = 3, !.inlinks = 5,
     !.size_bytes = 100000, !.last_modified = BAD]
\* every threshold passed by one, the title of RowA at another address
RowF ==
  [Base EXCEPT !.address = "d", !.canonical = NAs,
     !.content_type = "text/html; charset=UTF-8", !.status_code = 400,
     !.response_time = 501, !.indexability_status = "Non-Indexable",
     !.title_1_length = 60, !.meta_length = 160, !.word_count = 299,
     !.flesch = 59, !.no_near_duplicates = 1, !.closest_similarity_match = 95, !.crawl_depth = 4,
     !.inlinks = 4, !.link_score = 10, !.size_bytes = 100001,
     !.http_version = "1.1"]
\* the address and the title of RowC again, title length 49
RowG ==
  [Base EXCEPT !.address = "c", !.canonical = "c", !.status_code = 499,
     !.title_1 = "Contact", !.title_1_length = 49, !.meta_length = 149,
     !.no_near_duplicates = 3, !.closest_similarity_match = NA, !.inlinks = 0,
     !.link_score = NA]
\* title length 61, no title text, a content type in capitals
RowH ==
  [Base EXCEPT !.address = "d", !.content_type = "TEXT/HTML",
     !.status_code = 500, !.title_1 = NAs, !.title_1_length = 61,
     !.meta_length = 161, !.indexability_status = "Non-Indexable (noindex)"]

RowPool == {RowA, RowB, RowC, RowD, RowE, RowF, RowG, RowH}

RECURSIVE SeqsUpTo(_, _)
SeqsUpTo(S, n) ==
  IF n = 0 THEN {<<>>}
  ELSE LET shorter == SeqsUpTo(S, n - 1)
       IN  shorter \cup {Append(s, x) : s \in shorter, x \in S}

(***************************************************************************)
(* The table operations of the pipeline.                                   *)
(***************************************************************************)
\* df[mask]: the rows that satisfy Test, in their order
Filter(rel, Test(_)) == SelectSeq(rel, Test)
\* df[[columns]]: every row cut down to the named fields; a row keeps its
\* index label, as the rows of a DataFrame do
Project(rel, fields) ==
  [i \in DOMAIN rel |-> [f \in fields \cup {"index"} |-> rel[i][f]]]
\* the comparisons of a column with a number: a missing cell never matches
LtMissingMatches(x, c) == x < c
Lt(x, c) == x # NA /\ x < c
Gt(x, c) == x # NA /\ x > c
Between(x, lo, hi) == x # NA /\ lo <= x /\ x <= hi

\* pd.to_numeric / pd.to_datetime with errors='coerce'
Coerce(v) == IF v = BAD THEN NA ELSE v
\* df.fillna({'title 1 length': 0, 'meta description 1 length': 0})
FillNa(r) ==
  [r EXCEPT !.title_1_length = IF @ = NA THEN 0 ELSE @,
            !.meta_length = IF @ = NA THEN 0 ELSE @]
\* the rows of clean_data before the partition and the deduplication
Coerced(rel) ==
  [i \in DOMAIN rel |->
     [FillNa(rel[i]) EXCEPT !.status_code = Coerce(@),
                            !.last_modified = Coerce(@)]]

\* the rows at the positions idx, in their order
RECURSIVE Pick(_, _, _)
Pick(rel, idx, i) ==
  IF i > Len(rel) THEN <<>>
  ELSE (IF i \in idx THEN <<rel[i]>> ELSE <<>>) \o Pick(rel, idx, i + 1)
\* df.drop_duplicates(subset=['address']): the first row of every address
DropDuplicates(rel) ==
  Pick(rel,
       {i \in DOMAIN rel :
          \A j \in 1..(i - 1) : rel[j].address # rel[i].address},
       1)
\* df[df['content type'].str.contains('text/html', na=False)]
HtmlRows(rel) == Filter(rel, LAMBDA r : ContainsTextHtml(r.content_type))

\* x comes strictly before y in the sort order; missing cells come last
Before(x, y, asc) ==
  /\ x # NA
  /\ \/ y = NA
     \/ IF asc THEN x < y ELSE x > y
RECURSIVE Insert(_, _, _, _)
Insert(s, r, key, asc) ==
  IF s = <<>> THEN <<r>>
  ELSE IF Before(r[key], Head(s)[key], asc) THEN <<r>> \o s
  ELSE <<Head(s)>> \o Insert(Tail(s), r, key, asc)
\* sort_values(key, ascending=asc): rows with equal keys keep their order
RECURSIVE SortValues(_, _, _)
SortValues(s, key, asc) ==
  IF s = <<>> THEN <<>>
  ELSE Insert(SortValues(SubSeq(s, 1, Len(s) - 1), key, asc),
              s[Len(s)], key, asc)

(***************************************************************************)
(* The predicates of the rule catalogue.                                   *)
(***************************************************************************)
IsClientError(r) == Between(r.status_code, ClientErrorLo, ClientErrorHi)
IsSlowInclusive(r) ==
  r.response_time # NA /\ r.response_time >= SlowThreshold
IsSlow(r) == Gt(r.response_time, SlowThreshold)
IsNonIndexable(r) == ContainsNonIndexable(r.indexability_status)
IsMissingCanonical(r) == r.canonical = NAs
IsSuboptimalTitleInclusive(r) ==
  \/ (r.title_1_length # NA /\ r.title_1_length <= TitleMin)
  \/ (r.title_1_length # NA /\ r.title_1_length >= TitleMax)
IsSuboptimalTitle(r) ==
  Lt(r.title_1_length, TitleMin) \/ Gt(r.title_1_length, TitleMax)
IsSuboptimalMeta(r) ==
  Lt(r.meta_length, MetaMin) \/ Gt(r.meta_length, MetaMax)
IsThin(r) == Lt(r.word_count, ThinWords)
IsLowReadability(r) == Lt(r.flesch, ReadabilityMin)
HasNearDuplicates(r) == Gt(r.no_near_duplicates, 0)
IsDeep(r) == Gt(r.crawl_depth, DeepDepth)
HasLowInlinks(r) == Lt(r.inlinks, InlinksMin)
IsLarge(r) == Gt(r.size_bytes, LargeBytes)
IsOutdated(r, today) == Lt(r.last_modified, today - YearDays)
IsOldHttp(r) == r.http_version = "1.1"

(***************************************************************************)
(* The result relations of the analyze_* steps.                            *)
(***************************************************************************)
slow_pages(df) ==
  Project(Filter(df, IsSlow), {"address", "response_time", "status_code"})
non_index(df) ==
  Project(Filter(df, IsNonIndexable), {"address", "indexability_status"})
missing_canonical(df) ==
  Project(Filter(df, IsMissingCanonical), {"address"})
suboptimal_titles(df) ==
  Project(Filter(df, IsSuboptimalTitle),
          {"address", "title_1", "title_1_length"})
suboptimal_metas(df) ==
  Project(Filter(df, IsSuboptimalMeta), {"address", "meta_length"})
\* df.duplicated(subset=['title 1'], keep=False): the title occurs again
Duplicated(df, i) ==
  \E j \in DOMAIN df : j # i /\ df[j].title_1 = df[i].title_1
\* .groupby('title 1')['address'].apply(list): groupby drops the missing key
dup_titles(df) ==
  LET dups == Pick(df, {i \in DOMAIN df : Duplicated(df, i)}, 1)
      keys == {dups[i].title_1 : i \in DOMAIN dups} \ {NAs}
  IN  [t \in keys |->
         Project(Filter(dups, LAMBDA r : r.title_1 = t), {"address"})]
thin_pages(df) ==
  Project(Filter(df, IsThin), {"address", "word_count", "flesch"})
low_readability(df) ==
  Project(Filter(df, IsLowReadability), {"address", "flesch"})
near_dups(df) ==
  SortValues(Project(Filter(df, HasNearDuplicates),
                     {"address", "closest_similarity_match"}),
             "closest_similarity_match", FALSE)
deep_pages(df) ==
  Project(Filter(df, IsDeep), {"address", "crawl_depth", "inlinks"})
low_inlinks(df) ==
  SortValues(Project(Filter(df, HasLowInlinks),
                     {"address", "inlinks", "link_score"}),
             "link_score", TRUE)
large_pages(df) ==
  Project(Filter(df, IsLarge), {"address", "size_bytes", "content_type"})
outdated(df, today) ==
  Project(Filter(df, LAMBDA r : IsOutdated(r, today)),
          {"address", "last_modified"})
old_http(df) ==
  Project(Filter(df, IsOldHttp), {"address", "http_version"})

(***************************************************************************)
(* The files of the working directory.  A file holds the rows written to  *)
(* it; the rows keep their index label so that a row of a result can be    *)
(* traced to the row of the source it came from (index=False leaves the    *)
(* label out of the file itself).                                          *)
(***************************************************************************)
Artifacts ==
  {"reports/cleaned_data.csv", "reports/status_codes.png",
   "reports/slow_pages.xlsx", "reports/non_indexable.xlsx",
   "reports/missing_canonical.xlsx", "reports/indexability.png",
   "reports/suboptimal_titles.xlsx", "reports/suboptimal_metas.xlsx",
   "reports/duplicate_titles.csv", "reports/title_lengths.html",
   "reports/thin_pages.xlsx", "reports/low_readability.xlsx",
   "reports/near_duplicates.xlsx", "reports/content_quality.png",
   "reports/deep_pages.xlsx", "reports/low_inlinks.xlsx",
   "reports/link_correlations.png", "reports/large_pages.xlsx",
   "reports/outdated_pages.xlsx", "reports/old_http_pages.xlsx",
   "reports/page_size.png"}
Bundle == "reports/audit_report.xlsx"
Outputs == Artifacts \cup {Bundle}
NoFile == [present |-> FALSE, data |-> <<>>]
\* to_csv / to_excel / savefig / write_html: the file is written anew
WriteFileAppending(files, name, data) ==
  [files EXCEPT ![name] =
     [present |-> TRUE,
      data |-> IF name = Bundle THEN @.data \o data ELSE data]]
WriteFile(files, name, data) ==
  [files EXCEPT ![name] = [present |-> TRUE, data |-> data]]

\* df['column'] raises KeyError unless the source has the column
Has(cols, need) == need \subseteq cols
\* Series.str raises AttributeError on a column without a single string
\* (read_csv reads a column of empty cells as numbers)
StrAccessor(rel, field) == \E i \in DOMAIN rel : rel[i][field] # NAs
\* One write of a step: whether its statements run without raising, the
\* file it writes and the rows it writes.
Stage(can, file, data) == [can |-> can, file |-> file, data |-> data]
\* The writes of a step in their order, up to the first statement that
\* raises (the exception ends the run).
RECURSIVE RunStages(_, _)
RunStages(st, stages) ==
  IF stages = <<>> THEN st
  ELSE LET s == Head(stages)
       IN  IF s.can
           THEN RunStages([files |-> WriteFile(st.files, s.file, s.data),
                           written |-> st.written \cup {s.file},
                           ok |-> TRUE],
                          Tail(stages))
           ELSE [st EXCEPT !.ok = FALSE]

CrawlStages(df, cols) ==
  << Stage(Has(cols, {"status code"}), "reports/status_codes.png",
           Project(df, {"status_code"})),
     Stage(Has(cols, {"response time", "address", "status code"}),
           "reports/slow_pages.xlsx", slow_pages(df)) >>
IndexabilityStages(df, cols) ==
  << Stage(/\ Has(cols, {"indexability status", "address"})
           /\ StrAccessor(df, "indexability_status"),
           "reports/non_indexable.xlsx", non_index(df)),
     Stage(Has(cols, {"canonical link element 1", "address", "indexability"}),
           "reports/missing_canonical.xlsx", missing_canonical(df)),
     Stage(Has(cols, {"indexability"}), "reports/indexability.png",
           Project(df, {"indexability_status"})) >>
OnpageStages(df, cols) ==
  << Stage(Has(cols, {"title 1 length", "address", "title 1"}),
           "reports/suboptimal_titles.xlsx", suboptimal_titles(df)),
     Stage(Has(cols, {"meta description 1 length", "address", "meta description 1"}),
           "reports/suboptimal_metas.xlsx", suboptimal_metas(df)),
     Stage(Has(cols, {"title 1", "address"}),
           "reports/duplicate_titles.csv", dup_titles(df)),
     Stage(Has(cols, {"title 1 length"}), "reports/title_lengths.html",
           Project(df, {"title_1_length"})) >>
ContentStages(df, cols) ==
  << Stage(Has(cols, {"word count", "address", "flesch reading ease score"}),
           "reports/thin_pages.xlsx", thin_pages(df)),
     Stage(Has(cols, {"flesch reading ease score", "address"}),
           "reports/low_readability.xlsx", low_readability(df)),
     Stage(Has(cols, {"no. near duplicates", "address", "closest similarity match"}),
           "reports/near_duplicates.xlsx", near_dups(df)),
     Stage(Has(cols, {"word count", "flesch reading ease score"}),
           "reports/content_quality.png",
           Project(df, {"word_count", "flesch"})) >>
ArchitectureStages(df, cols) ==
  << Stage(Has(cols, {"crawl depth", "address", "inlinks"}),
           "reports/deep_pages.xlsx", deep_pages(df)),
     Stage(Has(cols, {"inlinks", "address", "link score"}),
           "reports/low_inlinks.xlsx", low_inlinks(df)),
     Stage(Has(cols, {"crawl depth", "inlinks", "outlinks"}),
           "reports/link_correlations.png",
           Project(df, {"crawl_depth", "inlinks"})) >>
PerformanceStages(df, cols, today) ==
  << Stage(Has(cols, {"size (bytes)", "address", "content type"}),
           "reports/large_pages.xlsx", large_pages(df)),
     Stage(Has(cols, {"last modified", "address"}),
           "reports/outdated_pages.xlsx", outdated(df, today)),
     Stage(Has(cols, {"http version", "address"}),
           "reports/old_http_pages.xlsx", old_http(df)),
     Stage(Has(cols, {"content type", "size (bytes)"}), "reports/page_size.png",
           Project(df, {"content_type", "size_bytes"})) >>

\* One sheet of the bundle.
Sheet(name, rows) == [name |-> name, rows |-> rows]
\* The sheets generate_report writes, every one computed from df.
ReportSheets(df, html_df, today) ==
  << Sheet("HTML Pages",
           Project(html_df, {"address", "status_code", "title_1",
                             "word_count"})),
     Sheet("4xx Errors",
           Project(Filter(df, IsClientError), {"address", "status_code"})),
     Sheet("Slow Pages",
           Project(Filter(df, IsSlow), {"address", "response_time"})),
     Sheet("Missing Canonical",
           Project(Filter(df, IsMissingCanonical), {"address"})),
     Sheet("Suboptimal Titles",
           Project(Filter(df, IsSuboptimalTitle),
                   {"address", "title_1", "title_1_length"})),
     Sheet("Suboptimal Metas",
           Project(Filter(df, IsSuboptimalMeta),
                   {"address", "meta_length"})),
     Sheet("Thin Content",
           Project(Filter(df, IsThin), {"address", "word_count"})),
     Sheet("Low Readability",
           Project(Filter(df, IsLowReadability), {"address", "flesch"})),
     Sheet("Near Duplicates",
           Project(Filter(df, HasNearDuplicates),
                   {"address", "closest_similarity_match"})),
     Sheet("Deep Pages",
           Project(Filter(df, IsDeep), {"address", "crawl_depth"})),
     Sheet("Low Inlinks",
           Project(Filter(df, HasLowInlinks),
                   {"address", "inlinks", "link_score"})),
     Sheet("Large Pages",
           Project(Filter(df, IsLarge), {"address", "size_bytes"})),
     Sheet("Outdated Pages",
           Project(Filter(df, LAMBDA r : IsOutdated(r, today)),
                   {"address", "last_modified"})),
     Sheet("HTTP 1.1 Pages",
           Project(Filter(df, IsOldHttp), {"address", "http_version"})) >>

(***************************************************************************)
(* The state of a run of audit.py.                                         *)
(***************************************************************************)
VARIABLES
  sourceExists,  \* data/raw/internal_all_02.csv is there
  columns,       \* the columns of the source file
  raw,           \* the rows of the source file
  now,           \* the last reading of the clock, in days
  run,           \* "first" or "second": which run over the source this is
  pc,            \* the step of __main__ that comes next
  df,            \* the relation __main__ holds
  html_df,       \* the HTML partition __main__ holds
  files,         \* the files of the working directory
  written,       \* the files this run has written
  previous,      \* the files as the run before left them
  dpc,           \* the statement of seo_dashboard.py that comes next
  data,          \* the sheets load_audit_data returned, or None
  csv_data,      \* the rows load_csv_data returned, or None
  layout,        \* app.layout
  log,           \* the lines printed so far
  is_open,       \* the is_open property of each dbc.Collapse of the layout
  n_clicks,      \* the n_clicks property of each section header
  triggered      \* dash.callback_context.triggered at the latest callback

auditVars ==
  <<sourceExists, columns, raw, now, run, pc, df, html_df, files, written,
    previous>>
dashVars == <<dpc, data, csv_data, layout, log, is_open, n_clicks, triggered>>
vars == <<auditVars, dashVars>>
\* None, as load_audit_data and load_csv_data return it
None == [ok |-> FALSE, value |-> <<>>]
Some(v) == [ok |-> TRUE, value |-> v]
NoLayout == [kind |-> "none"]

\* the columns a source file may lack: read first by clean_data, in the
\* middle of analyze_crawl_overview, by analyze_onpage_seo and late in
\* analyze_performance
MissingChoices == {"status code", "response time", "title 1", "http version"}
\* the last day the clock reaches
LastDay == YearDays + MaxTicks
Ended == pc \in {"done", "failed", "aborted"}

Init ==
  /\ sourceExists \in BOOLEAN
  /\ raw \in SeqsUpTo(RowPool, MaxRows) \ {<<>>}
  /\ columns \in {AllColumns} \cup {AllColumns \ {c} : c \in MissingChoices}
  \* a file that is not there has no rows to tell apart
  /\ ~sourceExists => (Len(raw) = 1 /\ columns = AllColumns)
  /\ now = YearDays
  /\ run = "first"
  /\ pc = "load"
  /\ df = <<>>
  /\ html_df = <<>>
  /\ files = [f \in Outputs |-> NoFile]
  /\ written = {}
  /\ previous = [f \in Outputs |-> NoFile]
  /\ dpc = "off"
  /\ data = None
  /\ csv_data = None
  /\ layout = NoLayout
  /\ log = <<>>
  /\ is_open = <<>>
  /\ n_clicks = <<>>
  /\ triggered = <<>>

\* pd.read_csv: the rows of the file under a RangeIndex
ReadCsv(rows) ==
  [i \in DOMAIN rows |->
     [f \in DOMAIN rows[i] \cup {"index"} |->
        IF f = "index" THEN i ELSE rows[i][f]]]

\* load_data and the test of its result in __main__
LoadData ==
  /\ pc = "load"
  /\ IF sourceExists
     THEN /\ df' = ReadCsv(raw)
          /\ pc' = "clean"
     ELSE /\ df' = df
          /\ pc' = "aborted"
  /\ UNCHANGED <<sourceExists, columns, raw, now, run, html_df, files,
                 written, previous>>
  /\ UNCHANGED dashVars

\* the two relations clean_data returns
CleanDf(rel) == DropDuplicates(Coerced(rel))
CleanHtml(rel) == HtmlRows(Coerced(rel))

CleanData ==
  /\ pc = "clean"
  /\ IF /\ Has(columns, {"status code", "last modified", "content type",
                         "address"})
        /\ StrAccessor(df, "content_type")
     THEN /\ df' = CleanDf(df)
          /\ html_df' = CleanHtml(df)
          /\ files' = WriteFile(files, "reports/cleaned_data.csv", df')
          /\ written' = written \cup {"reports/cleaned_data.csv"}
          /\ pc' = "crawl"
     ELSE /\ pc' = "failed"
          /\ UNCHANGED <<df, html_df, files, written>>
  /\ UNCHANGED <<sourceExists, columns, raw, now, run, previous>>
  /\ UNCHANGED dashVars

\* A step of __main__ that writes the stages and goes on to `next`.
Step(at, stages, next) ==
  /\ pc = at
  /\ LET st == RunStages([files |-> files, written |-> written,
                          ok |-> TRUE], stages)
     IN  /\ files' = st.files
         /\ written' = st.written
         /\ pc' = IF st.ok THEN next ELSE "failed"

AnalyzeCrawlOverview ==
  /\ Step("crawl", CrawlStages(df, columns), "index")
  /\ UNCHANGED <<sourceExists, columns, raw, now, run, df, html_df,
                 previous>>
  /\ UNCHANGED dashVars
AnalyzeIndexability ==
  /\ Step("index", IndexabilityStages(df, columns), "onpage")
  /\ UNCHANGED <<sourceExists, columns, raw, now, run, df, html_df,
                 previous>>
  /\ UNCHANGED dashVars
AnalyzeOnpageSeo ==
  /\ Step("onpage", OnpageStages(html_df, columns), "content")
  /\ UNCHANGED <<sourceExists, columns, raw, now, run, df, html_df,
                 previous>>
  /\ UNCHANGED dashVars
AnalyzeContentQuality ==
  /\ Step("content", ContentStages(html_df, columns), "arch")
  /\ UNCHANGED <<sourceExists, columns, raw, now, run, df, html_df,
                 previous>>
  /\ UNCHANGED dashVars
AnalyzeSiteArchitecture ==
  /\ Step("arch", ArchitectureStages(df, columns), "perf")
  /\ UNCHANGED <<sourceExists, columns, raw, now, run, df, html_df,
                 previous>>
  /\ UNCHANGED dashVars
\* datetime.now() reads a clock that never runs backwards
AnalyzePerformance ==
  /\ \E today \in now..LastDay :
       /\ now' = today
       /\ Step("perf", PerformanceStages(df, columns, today), "report")
  /\ UNCHANGED <<sourceExists, columns, raw, run, df, html_df, previous>>
  /\ UNCHANGED dashVars
\* Every column generate_report reads has been read by an earlier step, so
\* no sheet raises KeyError once the run is here.
GenerateReport ==
  /\ pc = "report"
  /\ \E today \in now..LastDay :
       /\ now' = today
       /\ files' = WriteFile(files, Bundle, ReportSheets(df, html_df, today))
  /\ written' = written \cup {Bundle}
  /\ pc' = "done"
  /\ UNCHANGED <<sourceExists, columns, raw, run, df, html_df, previous>>
  /\ UNCHANGED dashVars

\* audit.py is started again over the unchanged source
Rerun ==
  /\ Ended
  /\ run = "first"
  /\ run' = "second"
  /\ pc' = "load"
  /\ df' = <<>>
  /\ html_df' = <<>>
  /\ written' = {}
  /\ previous' = files
  /\ UNCHANGED <<sourceExists, columns, raw, now, files>>
  /\ UNCHANGED dashVars

Next ==
  \/ LoadData
  \/ CleanData
  \/ AnalyzeCrawlOverview
  \/ AnalyzeIndexability
  \/ AnalyzeOnpageSeo
  \/ AnalyzeContentQuality
  \/ AnalyzeSiteArchitecture
  \/ AnalyzePerformance
  \/ GenerateReport
  \/ Rerun

Spec == Init /\ [][Next]_vars

(***************************************************************************)
(* The start of seo_dashboard.py: the module-level statements that load   *)
(* the bundle and the source and choose app.layout.                        *)
(***************************************************************************)
\* the longest source the dashboard is started over
MaxDashRows == 1
\* the rows a table of the dashboard shows (create_data_table, max_rows)
MaxTableRows == 10

\* the keys of the dict load_audit_data returns and the sheets they read
SheetOfKey ==
  [k \in {"html_pages", "4xx_errors", "slow_pages", "missing_canonical",
          "suboptimal_titles", "suboptimal_metas", "thin_pages",
          "low_readability", "near_duplicates", "deep_pages", "low_inlinks",
          "large_pages", "outdated_pages", "http_1_pages"} |->
     CASE k = "html_pages" -> "HTML Pages"
       [] k = "4xx_errors" -> "4xx Errors"
       [] k = "slow_pages" -> "Slow Pages"
       [] k = "missing_canonical" -> "Missing Canonical"
       [] k = "suboptimal_titles" -> "Suboptimal Titles"
       [] k = "suboptimal_metas" -> "Suboptimal Metas"
       [] k = "thin_pages" -> "Thin Content"
       [] k = "low_readability" -> "Low Readability"
       [] k = "near_duplicates" -> "Near Duplicates"
       [] k = "deep_pages" -> "Deep Pages"
       [] k = "low_inlinks" -> "Low Inlinks"
       [] k = "large_pages" -> "Large Pages"
       [] k = "outdated_pages" -> "Outdated Pages"
       [] k = "http_1_pages" -> "HTTP 1.1 Pages"]
\* the chart files app.layout embeds
EmbeddedImages ==
  {"reports/status_codes.png", "reports/indexability.png",
   "reports/content_quality.png", "reports/link_correlations.png",
   "reports/page_size.png"}
\* the chart files in the order app.layout loads them
ImageOrder ==
  <<"reports/status_codes.png", "reports/indexability.png",
    "reports/content_quality.png", "reports/link_correlations.png",
    "reports/page_size.png">>
Line(text, file) == [text |-> text, file |-> file]
SourceFile == "data/raw/internal_all_02.csv"

\* pd.read_excel(audit_file, sheet_name=name): the rows of the sheet
ReadExcel(bundle, name) ==
  bundle[CHOOSE i \in DOMAIN bundle : bundle[i].name = name].rows
HasSheet(bundle, name) == \E i \in DOMAIN bundle : bundle[i].name = name

\* load_audit_data: what it returns and what it prints
load_audit_data_silent(fs) ==
  IF fs[Bundle].present
       /\ \A k \in DOMAIN SheetOfKey :
            HasSheet(fs[Bundle].data, SheetOfKey[k])
  THEN [result |->
          Some([k \in DOMAIN SheetOfKey |->
                  ReadExcel(fs[Bundle].data, SheetOfKey[k])]),
        printed |-> <<>>]
  ELSE [result |-> None, printed |-> <<>>]
load_audit_data(fs) ==
  IF ~fs[Bundle].present
  THEN [result |-> None, printed |-> <<Line("Error: not found", Bundle)>>]
  ELSE IF \A k \in DOMAIN SheetOfKey : HasSheet(fs[Bundle].data, SheetOfKey[k])
  THEN [result |->
          Some([k \in DOMAIN SheetOfKey |->
                  ReadExcel(fs[Bundle].data, SheetOfKey[k])]),
        printed |-> <<>>]
  ELSE [result |-> None,
        printed |-> <<Line("Error loading audit data", Bundle)>>]

\* load_csv_data: what it returns and what it prints
load_csv_data(exists, cols, rows) ==
  IF ~exists
  THEN [result |-> None,
        printed |-> <<Line("Error: not found", SourceFile)>>]
  ELSE IF ~Has(cols, {"title 1 length", "meta description 1 length"})
  THEN [result |-> None,
        printed |-> <<Line("Error: Required columns missing", SourceFile)>>]
  ELSE [result |-> Some(ReadCsv(rows)), printed |-> <<>>]

\* load_image: the data URL of a chart that is there, None of one that is not
load_image(fs, image_path) ==
  IF fs[image_path].present THEN "data:image/png;base64" ELSE "None"
\* the warnings load_image prints for the charts in the order of the layout
RECURSIVE ImageWarnings(_, _)
ImageWarnings(fs, paths) ==
  IF paths = <<>> THEN <<>>
  ELSE (IF fs[Head(paths)].present THEN <<>>
        ELSE <<Line("Warning: Image not found", Head(paths))>>)
       \o ImageWarnings(fs, Tail(paths))

\* df.head(max_rows)
HeadRows(rows, n) == SubSeq(rows, 1, IF Len(rows) < n THEN Len(rows) ELSE n)
\* the metric cards of the normal layout, by their title
MetricCards(d) ==
  [t \in {"Total URLs", "4xx Errors", "Slow Pages (>0.5s)",
          "Non-Indexable Pages", "Missing Canonical", "Suboptimal Titles",
          "Suboptimal Metas", "Thin Content Pages", "Low Readability Pages",
          "Near Duplicates", "Deep Pages (>3)", "Low Inlinks (<5)",
          "Large Pages (>100KB)", "Outdated Pages (>1yr)",
          "HTTP 1.1 Pages"} |->
     CASE t = "Total URLs" -> Len(d["html_pages"])
       [] t = "4xx Errors" -> Len(d["4xx_errors"])
       [] t = "Slow Pages (>0.5s)" -> Len(d["slow_pages"])
       [] t = "Non-Indexable Pages" -> Len(d["missing_canonical"])
       [] t = "Missing Canonical" -> Len(d["missing_canonical"])
       [] t = "Suboptimal Titles" -> Len(d["suboptimal_titles"])
       [] t = "Suboptimal Metas" -> Len(d["suboptimal_metas"])
       [] t = "Thin Content Pages" -> Len(d["thin_pages"])
       [] t = "Low Readability Pages" -> Len(d["low_readability"])
       [] t = "Near Duplicates" -> Len(d["near_duplicates"])
       [] t = "Deep Pages (>3)" -> Len(d["deep_pages"])
       [] t = "Low Inlinks (<5)" -> Len(d["low_inlinks"])
       [] t = "Large Pages (>100KB)" -> Len(d["large_pages"])
       [] t = "Outdated Pages (>1yr)" -> Len(d["outdated_pages"])
       [] t = "HTTP 1.1 Pages" -> Len(d["http_1_pages"])]
\* the tables of the normal layout, by their id
DataTables(d) ==
  [id \in {"table-4xx", "table-canonical", "table-titles", "table-thin",
           "table-deep", "table-large"} |->
     HeadRows(CASE id = "table-4xx" -> d["4xx_errors"]
                [] id = "table-canonical" -> d["missing_canonical"]
                [] id = "table-titles" -> d["suboptimal_titles"]
                [] id = "table-thin" -> d["thin_pages"]
                [] id = "table-deep" -> d["deep_pages"]
                [] id = "table-large" -> d["large_pages"],
              MaxTableRows)]

\* the test that chooses between the two layouts
ShowsError(d, c) == ~d.ok \/ ~c.ok
ErrorLayout == [kind |-> "error"]
NormalLayout(fs, d) ==
  [kind |-> "normal",
   cards |-> MetricCards(d),
   tables |-> DataTables(d),
   images |-> [i \in EmbeddedImages |-> load_image(fs, i)]]

\* the six collapsible sections of the normal layout and their headers
Collapses ==
  {"crawl-collapse", "indexability-collapse", "onpage-collapse",
   "content-collapse", "architecture-collapse", "performance-collapse"}
Headers ==
  {"crawl-header", "indexability-header", "onpage-header", "content-header",
   "architecture-header", "performance-header"}

\* data = load_audit_data()
LoadAuditData ==
  /\ dpc = "start"
  /\ LET got == load_audit_data(files)
     IN  /\ data' = got.result
         /\ log' = log \o got.printed
  /\ dpc' = "csv"
  /\ UNCHANGED <<csv_data, layout, is_open, n_clicks, triggered>>
  /\ UNCHANGED auditVars
\* csv_data = load_csv_data()
LoadCsvData ==
  /\ dpc = "csv"
  /\ LET got == load_csv_data(sourceExists, columns, raw)
     IN  /\ csv_data' = got.result
         /\ log' = log \o got.printed
  /\ dpc' = "layout"
  /\ UNCHANGED <<data, layout, is_open, n_clicks, triggered>>
  /\ UNCHANGED auditVars
\* the choice of app.layout
BuildLayout ==
  /\ dpc = "layout"
  /\ IF ShowsError(data, csv_data)
     THEN /\ layout' = ErrorLayout
          /\ log' = log
          /\ UNCHANGED <<is_open, n_clicks>>
     ELSE /\ layout' = NormalLayout(files, data.value)
          /\ log' = log \o ImageWarnings(files, ImageOrder)
          /\ is_open' = [c \in Collapses |-> TRUE]
          /\ n_clicks' = [h \in Headers |-> 0]
  /\ dpc' = "ready"
  /\ UNCHANGED <<data, csv_data, triggered>>
  /\ UNCHANGED auditVars

\* the bundle a complete run of audit.py leaves for the rows
BundleOf(rows) ==
  ReportSheets(CleanDf(ReadCsv(rows)), CleanHtml(ReadCsv(rows)), YearDays)
\* The dashboard is started in a working directory that holds the source
\* or not, a bundle (whole, or short of its last sheet) or not, and any of
\* the charts.
DashInit ==
  /\ sourceExists \in BOOLEAN
  /\ raw \in SeqsUpTo(RowPool, MaxDashRows) \ {<<>>}
  /\ columns \in {AllColumns, AllColumns \ {"title 1 length"},
                  AllColumns \ {"meta description 1 length"}}
  /\ ~sourceExists => columns = AllColumns
  /\ \E charts \in SUBSET EmbeddedImages :
     \E bundle \in {NoFile,
                    [present |-> TRUE, data |-> BundleOf(raw)],
                    [present |-> TRUE,
                     data |-> SubSeq(BundleOf(raw), 1,
                                     Len(BundleOf(raw)) - 1)]} :
       files = [f \in Outputs |->
                  IF f = Bundle THEN bundle
                  ELSE IF f \in charts THEN [present |-> TRUE, data |-> <<>>]
                  ELSE NoFile]
  /\ now = YearDays
  /\ run = "first"
  /\ pc = "done"
  /\ df = <<>>
  /\ html_df = <<>>
  /\ written = {}
  /\ previous = [f \in Outputs |-> NoFile]
  /\ dpc = "start"
  /\ data = None
  /\ csv_data = None
  /\ layout = NoLayout
  /\ log = <<>>
  /\ is_open = <<>>
  /\ n_clicks = <<>>
  /\ triggered = <<>>

DashNext ==
  \/ LoadAuditData
  \/ LoadCsvData
  \/ BuildLayout

SpecDash == DashInit /\ [][DashNext]_vars

(***************************************************************************)
(* The callback of the collapsible sections                                *)
(***************************************************************************)

\* the clicks one header takes
MaxClicks == 2

\* an entry of ctx.triggered: prop_id is '<component id>.<property>', kept
\* as the pair of its two parts
Trigger(id) == [prop_id |-> <<id, "n_clicks">>]
\* prop_id.split('.')[0]
ComponentId(prop_id) == prop_id[1]
\* what ctx.triggered may be: empty (the call at page load), one header,
\* or an id that is none of the six
Triggers ==
  {<<>>} \cup {<<Trigger(h)>> : h \in Headers \cup {"other-header"}}

\* toggle_collapse with the branch of 'indexability-header' copied from the
\* one above it
toggle_collapse_copied(ctx_triggered, crawl_state, index_state, onpage_state, content_state, arch_state, perf_state) ==
  IF ctx_triggered = <<>>
  THEN <<crawl_state, index_state, onpage_state, content_state, arch_state,
         perf_state>>
  ELSE LET button_id == ComponentId(ctx_triggered[1].prop_id)
       IN  IF button_id \in {"crawl-header", "indexability-header"}
           THEN <<~crawl_state, index_state, onpage_state, content_state,
                  arch_state, perf_state>>
           ELSE IF button_id = "onpage-header"
           THEN <<crawl_state, index_state, ~onpage_state, content_state,
                  arch_state, perf_state>>
           ELSE IF button_id = "content-header"
           THEN <<crawl_state, index_state, onpage_state, ~content_state,
                  arch_state, perf_state>>
           ELSE IF button_id = "architecture-header"
           THEN <<crawl_state, index_state, onpage_state, content_state,
                  ~arch_state, perf_state>>
           ELSE IF button_id = "performance-header"
           THEN <<crawl_state, index_state, onpage_state, content_state,
                  arch_state, ~perf_state>>
           ELSE <<crawl_state, index_state, onpage_state, content_state,
                  arch_state, perf_state>>
\* toggle_collapse: the six is_open values it returns, in the order of its
\* Outputs (the click counts it is handed are not read)
toggle_collapse(ctx_triggered, crawl_state, index_state, onpage_state, content_state, arch_state, perf_state) ==
  IF ctx_triggered = <<>>
  THEN <<crawl_state, index_state, onpage_state, content_state, arch_state,
         perf_state>>
  ELSE LET button_id == ComponentId(ctx_triggered[1].prop_id)
       IN  IF button_id = "crawl-header"
           THEN <<~crawl_state, index_state, onpage_state, content_state,
                  arch_state, perf_state>>
           ELSE IF button_id = "indexability-header"
           THEN <<crawl_state, ~index_state, onpage_state, content_state,
                  arch_state, perf_state>>
           ELSE IF button_id = "onpage-header"
           THEN <<crawl_state, index_state, ~onpage_state, content_state,
                  arch_state, perf_state>>
           ELSE IF button_id = "content-header"
           THEN <<crawl_state, index_state, onpage_state, ~content_state,
                  arch_state, perf_state>>
           ELSE IF button_id = "architecture-header"
           THEN <<crawl_state, index_state, onpage_state, content_state,
                  ~arch_state, perf_state>>
           ELSE IF button_id = "performance-header"
           THEN <<crawl_state, index_state, onpage_state, content_state,
                  arch_state, ~perf_state>>
           ELSE <<crawl_state, index_state, onpage_state, content_state,
                  arch_state, perf_state>>

\* One run of the callback in the browser: at page load nothing has
\* triggered it; a click on a header counts the click and triggers it.
ToggleCollapse ==
  /\ dpc = "ready"
  /\ layout.kind = "normal"
  /\ \E ctx_triggered \in Triggers :
       /\ triggered' = ctx_triggered
       /\ IF ctx_triggered # <<>>
             /\ ComponentId(ctx_triggered[1].prop_id) \in Headers
          THEN LET h == ComponentId(ctx_triggered[1].prop_id)
               IN  /\ n_clicks[h] < MaxClicks
                   /\ n_clicks' = [n_clicks EXCEPT ![h] = @ + 1]
          ELSE n_clicks' = n_clicks
       /\ LET out == toggle_collapse(ctx_triggered,
                                     is_open["crawl-collapse"],
                                     is_open["indexability-collapse"],
                                     is_open["onpage-collapse"],
                                     is_open["content-collapse"],
                                     is_open["architecture-collapse"],
                                     is_open["performance-collapse"])
          IN  is_open' = [c \in Collapses |->
                            CASE c = "crawl-collapse" -> out[1]
                              [] c = "indexability-collapse" -> out[2]
                              [] c = "onpage-collapse" -> out[3]
                              [] c = "content-collapse" -> out[4]
                              [] c = "architecture-collapse" -> out[5]
                              [] c = "performance-collapse" -> out[6]]
  /\ UNCHANGED <<dpc, data, csv_data, layout, log>>
  /\ UNCHANGED auditVars

\* The dashboard is started beside one source row and all its charts, with
\* or without the bundle, and is then clicked on.
ToggleInit ==
  /\ sourceExists = TRUE
  /\ raw = <<RowA>>
  /\ columns = AllColumns
  /\ DashInit
  /\ \A i \in EmbeddedImages : files[i].present
  /\ files[Bundle].present => Len(files[Bundle].data) = Len(BundleOf(raw))

ToggleNext ==
  \/ LoadAuditData
  \/ LoadCsvData
  \/ BuildLayout
  \/ ToggleCollapse

SpecToggle == ToggleInit /\ [][ToggleNext]_vars

(***************************************************************************)
(* What the claims speak of.                                               *)
(***************************************************************************)
Done == pc = "done"
\* the rows this run wrote to an artifact
Rows(file) == files[file].data
\* the rows of a sheet of the bundle
SheetRows(name) ==
  LET b == files[Bundle].data
  IN  b[CHOOSE i \in DOMAIN b : b[i].name = name].rows
NoRepeatedAddress(rel) ==
  \A i, j \in DOMAIN rel : rel[i].address = rel[j].address => i = j
\* every row of rows is a row of the relation part, cut down to its columns
RowsOf(rows, part) ==
  \A i \in DOMAIN rows :
    \E j \in DOMAIN part : \A f \in DOMAIN rows[i] : rows[i][f] = part[j][f]
\* the index labels of the rows
Labels(rows) == {rows[i].index : i \in DOMAIN rows}
Addresses(rows) == {rows[i].address : i \in DOMAIN rows}
\* the row with the label is among the rows
Lists(rows, label) == \E i \in DOMAIN rows : rows[i].index = label
TextFields ==
  {"address", "content_type", "indexability_status", "canonical",
   "title_1", "http_version"}
\* the cell of the source row is empty
MissingInSource(label, field) ==
  raw[label][field] = (IF field \in TextFields THEN NAs ELSE NA)

\* C1 (as claimed): once clean_data has returned, neither the relation of
\* all rows nor the HTML partition holds two rows with the same address.
C1_NoRepeatedAddress ==
  "reports/cleaned_data.csv" \in written =>
    NoRepeatedAddress(df) /\ NoRepeatedAddress(html_df)

HtmlArtifacts ==
  {"reports/suboptimal_titles.xlsx", "reports/suboptimal_metas.xlsx",
   "reports/thin_pages.xlsx", "reports/low_readability.xlsx",
   "reports/near_duplicates.xlsx"}
HtmlSheets ==
  {"Suboptimal Titles", "Suboptimal Metas", "Thin Content",
   "Low Readability", "Near Duplicates"}
AllRowsArtifacts ==
  {"reports/slow_pages.xlsx", "reports/non_indexable.xlsx",
   "reports/missing_canonical.xlsx", "reports/deep_pages.xlsx",
   "reports/low_inlinks.xlsx", "reports/large_pages.xlsx",
   "reports/outdated_pages.xlsx", "reports/old_http_pages.xlsx"}
AllRowsSheets ==
  {"4xx Errors", "Slow Pages", "Missing Canonical", "Deep Pages",
   "Low Inlinks", "Large Pages", "Outdated Pages", "HTTP 1.1 Pages"}

\* C2 (as claimed): at the end of a complete run every result, artifact and
\* sheet alike, holds only rows of the partition of its rule: the HTML
\* rules only rows of the HTML partition, the others only rows of the
\* deduplicated relation.
C2_ResultsWithinPartition ==
  Done =>
    /\ \A f \in HtmlArtifacts : RowsOf(Rows(f), html_df)
    /\ \A n \in HtmlSheets : RowsOf(SheetRows(n), html_df)
    /\ \A f \in AllRowsArtifacts : RowsOf(Rows(f), df)
    /\ \A n \in AllRowsSheets : RowsOf(SheetRows(n), df)

\* the column the predicate of a result reads, by artifact and by sheet
ArtifactColumn ==
  [f \in AllRowsArtifacts \cup HtmlArtifacts |->
     CASE f = "reports/slow_pages.xlsx" -> "response_time"
       [] f = "reports/non_indexable.xlsx" -> "indexability_status"
       [] f = "reports/missing_canonical.xlsx" -> "canonical"
       [] f = "reports/suboptimal_titles.xlsx" -> "title_1_length"
       [] f = "reports/suboptimal_metas.xlsx" -> "meta_length"
       [] f = "reports/thin_pages.xlsx" -> "word_count"
       [] f = "reports/low_readability.xlsx" -> "flesch"
       [] f = "reports/near_duplicates.xlsx" -> "no_near_duplicates"
       [] f = "reports/deep_pages.xlsx" -> "crawl_depth"
       [] f = "reports/low_inlinks.xlsx" -> "inlinks"
       [] f = "reports/large_pages.xlsx" -> "size_bytes"
       [] f = "reports/outdated_pages.xlsx" -> "last_modified"
       [] f = "reports/old_http_pages.xlsx" -> "http_version"]
SheetColumn ==
  [n \in AllRowsSheets \cup HtmlSheets |->
     CASE n = "4xx Errors" -> "status_code"
       [] n = "Slow Pages" -> "response_time"
       [] n = "Missing Canonical" -> "canonical"
       [] n = "Suboptimal Titles" -> "title_1_length"
       [] n = "Suboptimal Metas" -> "meta_length"
       [] n = "Thin Content" -> "word_count"
       [] n = "Low Readability" -> "flesch"
       [] n = "Near Duplicates" -> "no_near_duplicates"
       [] n = "Deep Pages" -> "crawl_depth"
       [] n = "Low Inlinks" -> "inlinks"
       [] n = "Large Pages" -> "size_bytes"
       [] n = "Outdated Pages" -> "last_modified"
       [] n = "HTTP 1.1 Pages" -> "http_version"]
\* no row of the rows has the cell of the column empty in the source
NoneMissing(rows, column) ==
  \A i \in DOMAIN rows : ~MissingInSource(rows[i].index, column)
\* no row of a group of duplicate titles has an empty title in the source
NoMissingTitleGrouped ==
  "reports/duplicate_titles.csv" \in written =>
    \A t \in DOMAIN Rows("reports/duplicate_titles.csv") :
      NoneMissing(Rows("reports/duplicate_titles.csv")[t], "title_1")

\* C3 (as claimed): but for 'missing canonical', no result holds a row
\* whose cell in the column of the rule is empty in the source, the title
\* length and the meta description length among them.
C3_MissingNeverMatches ==
  /\ \A f \in (AllRowsArtifacts \cup HtmlArtifacts)
                \ {"reports/missing_canonical.xlsx"} :
       f \in written => NoneMissing(Rows(f), ArtifactColumn[f])
  /\ NoMissingTitleGrouped
  /\ Done => \A n \in (AllRowsSheets \cup HtmlSheets)
                        \ {"Missing Canonical"} :
               NoneMissing(SheetRows(n), SheetColumn[n])

\* the results of the two rules that read a length clean_data fills in
FilledArtifacts ==
  {"reports/suboptimal_titles.xlsx", "reports/suboptimal_metas.xlsx"}
FilledSheets == {"Suboptimal Titles", "Suboptimal Metas"}
\* every row of the relation whose cell is empty in the source is listed
AllMissingListed(rel, rows, column) ==
  \A i \in DOMAIN rel :
    MissingInSource(rel[i].index, column) => Lists(rows, rel[i].index)

\* C3 (amended): but for 'missing canonical', 'suboptimal titles' and
\* 'suboptimal metas', no result holds a row whose cell in the column of
\* the rule is empty in the source; an empty title length or meta
\* description length is filled in as 0, so every such row of the
\* relation the result is computed from is in the result.
C3_MissingNeverMatchesButFilled ==
  /\ \A f \in (AllRowsArtifacts \cup HtmlArtifacts)
                \ ({"reports/missing_canonical.xlsx"} \cup FilledArtifacts) :
       f \in written => NoneMissing(Rows(f), ArtifactColumn[f])
  /\ NoMissingTitleGrouped
  /\ \A f \in FilledArtifacts :
       f \in written => AllMissingListed(html_df, Rows(f), ArtifactColumn[f])
  /\ Done =>
       /\ \A n \in (AllRowsSheets \cup HtmlSheets)
                     \ ({"Missing Canonical"} \cup FilledSheets) :
            NoneMissing(SheetRows(n), SheetColumn[n])
       /\ \A n \in FilledSheets :
            AllMissingListed(df, SheetRows(n), SheetColumn[n])
\* C3 (witness): a complete run over a source with a row whose cells are
\* all empty, kept by the deduplication, beside rows that the rules list.
C3_Witness ==
  /\ Done
  /\ \E i \in DOMAIN df :
       /\ MissingInSource(df[i].index, "word_count")
       /\ MissingInSource(df[i].index, "title_1_length")
       /\ Lists(SheetRows("Suboptimal Titles"), df[i].index)
       /\ Lists(Rows("reports/suboptimal_titles.xlsx"), df[i].index)
  /\ Rows("reports/slow_pages.xlsx") # <<>>
  /\ SheetRows("Thin Content") # <<>>

\* C4 (as claimed): when a run has ended, however it ended, it has written
\* every output or none.
C4_AllOrNothing == Ended => (written = Outputs \/ written = {})

\* the sheets of a bundle but for the one named
SheetsBut(bundle, name) == SelectSeq(bundle, LAMBDA sh : sh.name # name)
\* both runs over the source went through to the end
RanTwice == run = "second" /\ Done /\ previous[Bundle].present

\* C5 (as claimed): the second complete run over an unchanged source leaves
\* every artifact and every sheet of the bundle as the first left them.
C5_SameResults == RanTwice => \A f \in Outputs : files[f] = previous[f]

\* the first rows are among the second
Contained(first, second) == Labels(first) \subseteq Labels(second)
\* C5 (amended): the second complete run leaves every artifact and every
\* sheet as the first left them, but for the outdated pages, which are
\* measured from the reading of the clock: there the rows of the first run
\* are among the rows of the second.
C5_SameResultsButOutdated ==
  RanTwice =>
    /\ \A f \in Artifacts \ {"reports/outdated_pages.xlsx"} :
         files[f] = previous[f]
    /\ SheetsBut(files[Bundle].data, "Outdated Pages")
         = SheetsBut(previous[Bundle].data, "Outdated Pages")
    /\ Len(files[Bundle].data) = Len(previous[Bundle].data)
    /\ Contained(previous["reports/outdated_pages.xlsx"].data,
                 Rows("reports/outdated_pages.xlsx"))
    /\ LET old == previous[Bundle].data
           i == CHOOSE k \in DOMAIN old : old[k].name = "Outdated Pages"
       IN  Contained(old[i].rows, SheetRows("Outdated Pages"))
\* C5 (witness): two complete runs, the second on a later day, whose
\* outdated pages differ.
C5_Witness ==
  /\ RanTwice
  /\ Rows("reports/outdated_pages.xlsx")
       # previous["reports/outdated_pages.xlsx"].data
  /\ Rows("reports/slow_pages.xlsx") # <<>>

\* the keys of the rows never rise (missing keys aside)
NonIncreasing(rows, key) ==
  \A i, j \in DOMAIN rows :
    (i < j /\ rows[i][key] # NA /\ rows[j][key] # NA)
      => rows[i][key] >= rows[j][key]
\* the keys of the rows never fall (missing keys aside)
NonDecreasing(rows, key) ==
  \A i, j \in DOMAIN rows :
    (i < j /\ rows[i][key] # NA /\ rows[j][key] # NA)
      => rows[i][key] <= rows[j][key]
\* C6 (as claimed): the near duplicates, artifact and sheet, are listed from
\* the highest similarity score down, and the low inlinks, artifact and
\* sheet, from the lowest link score up.
C6_ResultsSorted ==
  Done =>
    /\ NonIncreasing(Rows("reports/near_duplicates.xlsx"),
                     "closest_similarity_match")
    /\ NonIncreasing(SheetRows("Near Duplicates"),
                     "closest_similarity_match")
    /\ NonDecreasing(Rows("reports/low_inlinks.xlsx"), "link_score")
    /\ NonDecreasing(SheetRows("Low Inlinks"), "link_score")

Ready == dpc = "ready"
\* a line about the file has been printed
Reported(file) == \E i \in DOMAIN log : log[i].file = file
\* C7 (as claimed): when the bundle is not there, or one of the embedded
\* charts is not there, the dashboard reports a problem and shows the
\* error notice.
C7_ErrorNoticeOnMissingArtifact ==
  Ready =>
    /\ ~files[Bundle].present
         => (layout.kind = "error" /\ Reported(Bundle))
    /\ \A i \in EmbeddedImages :
         ~files[i].present => (layout.kind = "error" /\ log # <<>>)
\* C7 (amended): when the bundle is not there the dashboard reports it and
\* shows the error notice; when the bundle and the source load and a chart
\* is not there, it prints a warning for that chart and shows the normal
\* layout with the chart left out.
C7_ErrorNoticeOnMissingBundle ==
  Ready =>
    /\ ~files[Bundle].present
         => (layout.kind = "error" /\ Reported(Bundle))
    /\ \A i \in EmbeddedImages :
         (~files[i].present /\ data.ok /\ csv_data.ok)
           => /\ layout.kind = "normal"
              /\ Reported(i)
              /\ layout.images[i] = "None"
\* C7 (witness): the start-up has ended with the bundle and the source
\* loaded and a chart missing.
C7_Witness ==
  /\ Ready
  /\ data.ok /\ csv_data.ok
  /\ ~files["reports/indexability.png"].present
  /\ files["reports/page_size.png"].present

\* the first row of the source with its address
FirstOfAddress(i) ==
  \A j \in 1..(i - 1) : raw[j].address # raw[i].address
\* the rows list every label of the set once and nothing else
ListsExactly(rows, labels) ==
  Labels(rows) = labels /\ Len(rows) = Cardinality(labels)
\* the source holds the three rows of the scenario and nothing else
Scenario == Len(raw) = 3 /\ {raw[i] : i \in DOMAIN raw} = {RowA, RowB, RowC}
\* the rows are one row for each of the addresses
OnePerAddress(rows, addrs) ==
  Addresses(rows) = addrs /\ Len(rows) = Cardinality(addrs)

\* C8: on the three rows of the scenario the slow pages are {b}, the
\* suboptimal titles {b, c} and the '4xx Errors' sheet {b}; on every source
\* the '4xx Errors' sheet holds the first row of every address whose status
\* code is from 400 to 499, and the slow pages the first row of every
\* address whose response time is above 0.5 s.
C8_ScenarioAndRanges ==
  Done =>
    /\ Scenario =>
         /\ OnePerAddress(Rows("reports/slow_pages.xlsx"), {"b"})
         /\ OnePerAddress(SheetRows("Slow Pages"), {"b"})
         /\ OnePerAddress(Rows("reports/suboptimal_titles.xlsx"), {"b", "c"})
         /\ OnePerAddress(SheetRows("Suboptimal Titles"), {"b", "c"})
         /\ OnePerAddress(SheetRows("4xx Errors"), {"b"})
    /\ ListsExactly(SheetRows("4xx Errors"),
                    {i \in DOMAIN raw :
                       FirstOfAddress(i) /\ raw[i].status_code \in 400..499})
    /\ ListsExactly(Rows("reports/slow_pages.xlsx"),
                    {i \in DOMAIN raw :
                       FirstOfAddress(i) /\ raw[i].response_time > 500})
    /\ ListsExactly(SheetRows("Slow Pages"),
                    {i \in DOMAIN raw :
                       FirstOfAddress(i) /\ raw[i].response_time > 500})
\* C8 (witness): a complete run over the three rows of the scenario.
C8_Witness == Done /\ Scenario

\* the rows of the HTML partition that carry the title
Carrying(t) == {i \in DOMAIN html_df : html_df[i].title_1 = t}
\* C9 (as claimed): the duplicate titles are one group for every title that
\* two or more rows of the HTML partition carry, the group lists the
\* addresses of just those rows, at least two of them distinct, and a row
\* whose title is single or missing is in no group.
C9_DuplicateTitleGroups ==
  "reports/duplicate_titles.csv" \in written =>
    LET groups == Rows("reports/duplicate_titles.csv")
    IN  /\ DOMAIN groups =
             {html_df[i].title_1 : i \in DOMAIN html_df}
               \cap {t \in {"Home", "About", "Contact"} :
                       Cardinality(Carrying(t)) >= 2}
        /\ \A t \in DOMAIN groups :
             /\ ListsExactly(groups[t],
                             {html_df[i].index : i \in Carrying(t)})
             /\ Cardinality(Addresses(groups[t])) >= 2

\* C10: a row with a title length of 50 or 60 is in no suboptimal titles
\* result, and a row with 49 or 61 is in the result of the relation that
\* holds it: the artifact for the HTML partition, the sheet for the
\* deduplicated relation.
C10_StrictBounds ==
  /\ "reports/suboptimal_titles.xlsx" \in written =>
       /\ \A i \in DOMAIN raw :
            raw[i].title_1_length \in {50, 60}
              => ~Lists(Rows("reports/suboptimal_titles.xlsx"), i)
       /\ \A i \in DOMAIN html_df :
            html_df[i].title_1_length \in {49, 61}
              => Lists(Rows("reports/suboptimal_titles.xlsx"),
                       html_df[i].index)
  /\ Done =>
       /\ \A i \in DOMAIN raw :
            raw[i].title_1_length \in {50, 60}
              => ~Lists(SheetRows("Suboptimal Titles"), i)
       /\ \A i \in DOMAIN df :
            df[i].title_1_length \in {49, 61}
              => Lists(SheetRows("Suboptimal Titles"), df[i].index)
\* C10 (witness): a complete run over rows with title lengths 49, 60 and
\* 61, the first two of them HTML pages.
C10_Witness ==
  /\ Done
  /\ \E i, j \in DOMAIN html_df :
       html_df[i].title_1_length = 49 /\ html_df[j].title_1_length = 60
  /\ \E i \in DOMAIN df : df[i].title_1_length = 61

\* the sheet of the bundle that a metric card is named after
SheetOfCard ==
  [t \in {"4xx Errors", "Slow Pages (>0.5s)", "Missing Canonical",
          "Suboptimal Titles", "Suboptimal Metas", "Thin Content Pages",
          "Low Readability Pages", "Near Duplicates", "Deep Pages (>3)",
          "Low Inlinks (<5)", "Large Pages (>100KB)",
          "Outdated Pages (>1yr)", "HTTP 1.1 Pages"} |->
     CASE t = "4xx Errors" -> "4xx Errors"
       [] t = "Slow Pages (>0.5s)" -> "Slow Pages"
       [] t = "Missing Canonical" -> "Missing Canonical"
       [] t = "Suboptimal Titles" -> "Suboptimal Titles"
       [] t = "Suboptimal Metas" -> "Suboptimal Metas"
       [] t = "Thin Content Pages" -> "Thin Content"
       [] t = "Low Readability Pages" -> "Low Readability"
       [] t = "Near Duplicates" -> "Near Duplicates"
       [] t = "Deep Pages (>3)" -> "Deep Pages"
       [] t = "Low Inlinks (<5)" -> "Low Inlinks"
       [] t = "Large Pages (>100KB)" -> "Large Pages"
       [] t = "Outdated Pages (>1yr)" -> "Outdated Pages"
       [] t = "HTTP 1.1 Pages" -> "HTTP 1.1 Pages"]
\* the dashboard shows the normal layout
ShowsCards == Ready /\ layout.kind = "normal"
\* the cards named after a sheet show the number of rows of that sheet
SheetCardsCount ==
  \A t \in DOMAIN SheetOfCard :
    layout.cards[t] = Len(SheetRows(SheetOfCard[t]))
\* the rows of the deduplicated relation the bundle was made from
DeduplicatedLabels == {i \in DOMAIN raw : FirstOfAddress(i)}
\* C11 (as claimed): every metric card shows the number of rows of the
\* result its title names: 'Total URLs' the rows of the deduplicated
\* relation, 'Non-Indexable Pages' the non-indexable rows, every other
\* card the rows of the sheet of its rule.
C11_CardsCountTheirResult ==
  ShowsCards =>
    /\ layout.cards["Total URLs"] = Cardinality(DeduplicatedLabels)
    /\ layout.cards["Non-Indexable Pages"] =
         Cardinality({i \in DeduplicatedLabels :
                        raw[i].indexability_status
                          \in {"Non-Indexable", "Non-Indexable (noindex)"}})
    /\ SheetCardsCount

\* the header that opens and closes a section
HeaderOf ==
  [c \in Collapses |->
     CASE c = "crawl-collapse" -> "crawl-header"
       [] c = "indexability-collapse" -> "indexability-header"
       [] c = "onpage-collapse" -> "onpage-header"
       [] c = "content-collapse" -> "content-header"
       [] c = "architecture-collapse" -> "architecture-header"
       [] c = "performance-collapse" -> "performance-header"]
\* a section is open iff its own header was clicked an even number of times
OpenIffEvenClicks ==
  ShowsCards => \A c \in Collapses : is_open[c] <=> n_clicks[HeaderOf[c]] % 2 = 0
\* the layout is built with all six sections open
BuiltOpen ==
  (dpc = "layout" /\ dpc' = "ready" /\ layout'.kind = "normal") =>
    \A c \in Collapses : is_open'[c]
\* a run of the callback negates the section of the header that triggered
\* it and keeps the five others; with no trigger, or with an id that is no
\* header, it keeps all six
NegatesOwnSection ==
  ShowsCards =>
    LET button_id == IF triggered' = <<>> THEN "none"
                     ELSE triggered'[1].prop_id[1]
    IN  \A c \in Collapses :
          is_open'[c] = IF HeaderOf[c] = button_id THEN ~is_open[c]
                        ELSE is_open[c]
\* C12: all six sections start open; a toggle_collapse run triggered by one
\* header negates exactly that section's open state and keeps the other
\* five, a run with no trigger or an unknown trigger id keeps all six; so a
\* section is always open iff its own header was clicked an even number of
\* times.
C12_ToggleOwnSection ==
  /\ []OpenIffEvenClicks
  /\ [][BuiltOpen /\ NegatesOwnSection]_vars
\* one header clicked once, another twice, then a run with an unknown id
C12_Witness ==
  /\ ShowsCards
  /\ n_clicks["crawl-header"] = 1
  /\ ~is_open["crawl-collapse"]
  /\ n_clicks["content-header"] = 2
  /\ is_open["content-collapse"]
  /\ n_clicks["performance-header"] = 0
  /\ is_open["performance-collapse"]
  /\ triggered = <<Trigger("other-header")>>

====
